---- MODULE Spec2Model ----
(***************************************************************************)
(* Two view components of the Actual budgeting client:                     *)
(*                                                                         *)
(*   - ExperimentalFeatures / FeatureToggle (settings panel): a panel that *)
(*     is expanded by an acknowledgment link and then renders one checkbox *)
(*     per feature flag; a change event writes the negated rendered value  *)
(*     to the synced preference flags.<flagName>.                          *)
(*   - Input (component library): a text input that forwards key-up, blur, *)
(*     change and click events to the caller's handlers and, on Firefox,   *)
(*     repositions the cursor from a zero-delay timer.                     *)
(*                                                                         *)
(* The two components share no state: PanelSpec is the panel's state       *)
(* machine, InputSpec the Input's clicks and cursor timers, InputEventSpec *)
(* the Input's forwarded key-up, blur and change events; each leaves the   *)
(* other component's variables alone.                                      *)
(***************************************************************************)
EXTENDS Integers, Sequences, FiniteSets, TLC

VARIABLES
    \* ---- settings panel ----
    mounted,        \* ExperimentalFeatures is mounted
    expanded,       \* useState(false) of ExperimentalFeatures
    prefs,          \* the synced-preference store: key -> string or UNDEFINED
    localStorage,   \* localStorage.getItem('devEnableGoalTemplatesUI')
    view,           \* what the last render put on screen (and its closures)
    dirty,          \* the store changed since the last render
    written,        \* every <<key, value>> the panel passed to a pref setter
    lastOp,         \* the last panel operation and what it saw
    \* ---- Input ----
    isFirefoxBrowser, \* module constant computed once from navigator.userAgent
    inputMounted,   \* the Input element is on screen
    value,          \* input.value
    scrollWidth,    \* input.scrollWidth
    clientWidth,    \* input.clientWidth
    timers,         \* pending setTimeout(..., 0) callbacks, each holding its x
    lastEvent,      \* the last event or callback that ran on the Input
    calls           \* the calls that event made, in order

panelVars == <<mounted, expanded, prefs, localStorage, view, dirty, written, lastOp>>
inputVars == <<isFirefoxBrowser, inputMounted, value, scrollWidth, clientWidth,
               timers, lastEvent, calls>>
vars == <<mounted, expanded, prefs, localStorage, view, dirty, written, lastOp,
          isFirefoxBrowser, inputMounted, value, scrollWidth, clientWidth,
          timers, lastEvent, calls>>

(***************************************************************************)
(* JavaScript values                                                       *)
(***************************************************************************)
UNDEFINED == "<undefined>"     \* a preference that was never saved
NULL      == "<null>"          \* localStorage.getItem of an absent item
NaN       == "NaN"

\* String(b) of a boolean b
JSString(b) == IF b THEN "true" ELSE "false"

Max(a, b) == IF a >= b THEN a ELSE b
Min(a, b) == IF a <= b THEN a ELSE b

(***************************************************************************)
(* Settings panel                                                          *)
(***************************************************************************)
GoalTemplates   == "goalTemplatesEnabled"
GoalTemplatesUI == "goalTemplatesUIEnabled"
ActionTemplating == "actionTemplating"
PluggyAi        == "pluggyAiBankSync"

\* the flags ExperimentalFeatures renders a FeatureToggle for
Flags == {GoalTemplates, GoalTemplatesUI, ActionTemplating, PluggyAi}

\* useSyncedPref(`flags.${flagName}`)
PrefKey(flagName) == "flags." \o flagName

\* a synced preference the panel has nothing to do with
OtherKey == "budgetName"
\* the keys the store holds when the panel is first shown
PrefKeys == {"flags.goalTemplatesEnabled", "flags.goalTemplatesUIEnabled",
             "flags.actionTemplating", "flags.pluggyAiBankSync", OtherKey}

FlagValues == {UNDEFINED, "true", "false"}
OtherValues == {UNDEFINED, "true"}
LocalStorageValues == {NULL, "true", "false", "1"}

\* useFeatureFlag(name): the flag is on iff its preference is the string "true"
useFeatureFlag(p, flagName) ==
    /\ ("flags." \o flagName) \in DOMAIN p
    /\ p["flags." \o flagName] = "true"

\* the setter returned by useSyncedPref(key)
setSyncedPref(p, key, v) ==
    [k \in DOMAIN p \cup {key} |-> IF k = key THEN v ELSE p[k]]

\* onChange of the Checkbox: setFlagPref(String(!enabled))
\* (variant: the value is written without the negation)
ToggleValueSame(enabled) == JSString(enabled)
ToggleValue(enabled) == JSString(~enabled)

\* showGoalTemplatesUI
\* (variants: the override without goalTemplatesEnabled; goalTemplatesEnabled
\* without the override)
ShowGoalTemplatesUIOverrideAlone(gte, gtui, ls) == gtui \/ ls = "true"
ShowGoalTemplatesUINoOverrideCheck(gte, gtui, ls) == gtui \/ gte
ShowGoalTemplatesUI(gte, gtui, ls) ==
    gtui \/ (gte /\ ls = "true")

\* the flags whose FeatureToggle the primaryAction holds
\* (variant: the toggles without the expanded test)
RenderedTogglesAlways(exp, p, ls) ==
    {GoalTemplates, ActionTemplating, PluggyAi}
        \cup (IF ShowGoalTemplatesUI(useFeatureFlag(p, GoalTemplates),
                                     useFeatureFlag(p, GoalTemplatesUI), ls)
              THEN {GoalTemplatesUI} ELSE {})
RenderedToggles(exp, p, ls) ==
    IF exp
    THEN {GoalTemplates, ActionTemplating, PluggyAi}
            \cup (IF ShowGoalTemplatesUI(useFeatureFlag(p, GoalTemplates),
                                         useFeatureFlag(p, GoalTemplatesUI), ls)
                  THEN {GoalTemplatesUI} ELSE {})
    ELSE {}

\* one render of ExperimentalFeatures: the link or the toggles, and for each
\* toggle the `enabled` its Checkbox shows and its onChange closes over
Render(exp, p, ls) ==
    [link    |-> ~exp,
     toggles |-> RenderedToggles(exp, p, ls),
     checked |-> [f \in RenderedToggles(exp, p, ls) |-> useFeatureFlag(p, f)]]

NoView == [link |-> FALSE, toggles |-> {}, checked |-> [f \in {} |-> FALSE]]

\* useState(false)
ExpandedInitial == FALSE

Op(op, flag, enabled, before, fresh) ==
    [op |-> op, flag |-> flag, enabled |-> enabled, before |-> before, fresh |-> fresh]
PlainOp(op) == Op(op, "-", FALSE, FALSE, FALSE)

PanelInit ==
    /\ mounted = TRUE
    /\ expanded = ExpandedInitial
    /\ prefs \in [PrefKeys -> FlagValues]
    /\ prefs[OtherKey] \in OtherValues
    /\ localStorage \in LocalStorageValues
    /\ view = Render(expanded, prefs, localStorage)
    /\ dirty = FALSE
    /\ written = {}
    /\ lastOp = PlainOp("mount")

\* the component is mounted (again): fresh state, first render
Mount ==
    /\ ~mounted
    /\ mounted' = TRUE
    /\ expanded' = ExpandedInitial
    /\ view' = Render(expanded', prefs, localStorage)
    /\ dirty' = FALSE
    /\ lastOp' = PlainOp("mount")
    /\ UNCHANGED <<prefs, localStorage, written>>

Unmount ==
    /\ mounted
    /\ mounted' = FALSE
    /\ expanded' = ExpandedInitial
    /\ view' = NoView
    /\ dirty' = FALSE
    /\ lastOp' = PlainOp("unmount")
    /\ UNCHANGED <<prefs, localStorage, written>>

\* onClick of the 'I understand the risks' link: setExpanded(true), and the
\* re-render React runs at the end of the click
ClickLink ==
    /\ mounted
    /\ view.link
    /\ expanded' = TRUE
    /\ view' = Render(expanded', prefs, localStorage)
    /\ dirty' = FALSE
    /\ lastOp' = PlainOp("click")
    /\ UNCHANGED <<mounted, prefs, localStorage, written>>

\* a change event on the Checkbox of flag f, as rendered by the last render
\* (variant: the write reaches every flag)
ChangeAllFlags(f) ==
    /\ mounted
    /\ f \in view.toggles
    /\ LET v == ToggleValue(view.checked[f])
       IN /\ prefs' = [k \in DOMAIN prefs |-> IF k = OtherKey THEN prefs[k] ELSE v]
          /\ written' = written \cup {<<PrefKey(f), v>>}
          /\ dirty' = (dirty \/ prefs' # prefs)
          /\ lastOp' = Op("change", f, view.checked[f],
                          useFeatureFlag(prefs, f), ~dirty)
    /\ UNCHANGED <<mounted, expanded, localStorage, view>>
Change(f) ==
    /\ mounted
    /\ f \in view.toggles
    /\ LET enabled == view.checked[f]
           key == PrefKey(f)
           v == ToggleValue(enabled)
       IN /\ prefs' = setSyncedPref(prefs, key, v)
          /\ written' = written \cup {<<key, v>>}
          /\ dirty' = (dirty \/ prefs' # prefs)
          /\ lastOp' = Op("change", f, enabled, useFeatureFlag(prefs, f), ~dirty)
    /\ UNCHANGED <<mounted, expanded, localStorage, view>>

\* the store notified its subscribers: the panel renders with the saved prefs
\* (variant: the notification is consumed without a new render)
RerenderKeepsView ==
    /\ mounted
    /\ dirty
    /\ dirty' = FALSE
    /\ lastOp' = PlainOp("render")
    /\ UNCHANGED <<mounted, expanded, prefs, localStorage, written, view>>
Rerender ==
    /\ mounted
    /\ dirty
    /\ view' = Render(expanded, prefs, localStorage)
    /\ dirty' = FALSE
    /\ lastOp' = PlainOp("render")
    /\ UNCHANGED <<mounted, expanded, prefs, localStorage, written>>

\* the Input is not part of the panel's state machine
InputParked ==
    /\ isFirefoxBrowser = FALSE
    /\ inputMounted = FALSE
    /\ value = ""
    /\ scrollWidth = 0
    /\ clientWidth = 0
    /\ timers = <<>>
    /\ lastEvent = [op |-> "none"]
    /\ calls = <<>>

PanelNext ==
    \/ Mount /\ UNCHANGED inputVars
    \/ Unmount /\ UNCHANGED inputVars
    \/ ClickLink /\ UNCHANGED inputVars
    \/ \E f \in Flags : Change(f) /\ UNCHANGED inputVars
    \/ Rerender /\ UNCHANGED inputVars

PanelSpecInit == PanelInit /\ InputParked

PanelSpec == PanelSpecInit /\ [][PanelNext]_vars

(***************************************************************************)
(* Input                                                                   *)
(***************************************************************************)
MaxLen == 3         \* longest text typed into the input
MaxWidth == 3       \* widest layout of the input, in pixels
MaxTimers == 2      \* most cursor timers pending at once

RECURSIVE Text(_)
Text(n) == IF n = 0 THEN "" ELSE Text(n - 1) \o "x"
Values == {Text(n) : n \in 0..MaxLen}

\* e.clientX and rect.left of a click: x = clientX - left runs from left of
\* the input's box to right of it
ClientXs == 0..(MaxWidth + 1)
Lefts == {0, 1}

Keys == {"Enter", "Escape", "a"}
KeyUpHandlers == {"onKeyUp", "onEnter", "onEscape"}
BlurHandlers == {"onUpdate", "onBlur"}
ChangeHandlers == {"onChangeValue", "onChange"}
ClickHandlers == {"onClick"}

Call(fn, args) == [fn |-> fn, args |-> args]
\* handler?.(...) : the call when the handler was supplied and due
CallIf(cond, fn, args) == IF cond THEN <<Call(fn, args)>> ELSE <<>>

Ev(op, key, supplied, x, threw, uncaught) ==
    [op |-> op, key |-> key, supplied |-> supplied, x |-> x,
     threw |-> threw, uncaught |-> uncaught]

\* Math.round of the non-negative rational num / den: the nearest integer,
\* halves going up. The code rounds the double (relativeX / containerWidth)
\* * length; for the widths and lengths explored here that double is the
\* exact quotient wherever it lies on a half (for larger ones, such as
\* 7 / 10 * 45, the double falls just below the half and rounds down).
MathRound(num, den) == (2 * num + den) \div (2 * den)

\* the cursor position the timer callback computes from the click's x and
\* the layout and value it reads when it runs:
\*   relativeX = max(0, min(x, containerWidth))
\*   textRatio = textWidth > 0 ? relativeX / containerWidth : 0
\*   cursorPos = round(textRatio * (value?.length || 0))
\* 0 / 0 is NaN and stays NaN through the product and Math.round.
\* (variant: x is not limited to containerWidth)
CursorPosUnclamped(x, textWidth, containerWidth, len) ==
    IF textWidth > 0
    THEN IF containerWidth = 0 THEN NaN
         ELSE MathRound(Max(0, x) * len, containerWidth)
    ELSE 0
CursorPos(x, textWidth, containerWidth, len) ==
    LET relativeX == Max(0, Min(x, containerWidth))
    IN IF textWidth > 0
       THEN IF containerWidth = 0 THEN NaN
            ELSE MathRound(relativeX * len, containerWidth)
       ELSE 0

InputInit ==
    /\ isFirefoxBrowser \in BOOLEAN
    /\ inputMounted = TRUE
    /\ value \in Values
    /\ clientWidth \in 0..MaxWidth
    /\ scrollWidth \in clientWidth..MaxWidth
    /\ timers = <<>>
    /\ lastEvent = Ev("mount", "-", {}, 0, FALSE, FALSE)
    /\ calls = <<>>

\* onKeyUp of the rendered input
\* (variant: onEnter ahead of the caller's onKeyUp)
KeyUpEnterFirst(key, supplied) ==
    /\ inputMounted
    /\ calls' = CallIf(key = "Enter" /\ "onEnter" \in supplied,
                       "onEnter", <<value, "e">>)
                \o CallIf("onKeyUp" \in supplied, "onKeyUp", <<"e">>)
                \o CallIf(key = "Escape" /\ "onEscape" \in supplied,
                          "onEscape", <<value, "e">>)
    /\ lastEvent' = Ev("keyup", key, supplied, 0, FALSE, FALSE)
    /\ UNCHANGED <<isFirefoxBrowser, inputMounted, value, scrollWidth,
                   clientWidth, timers>>
KeyUp(key, supplied) ==
    /\ inputMounted
    /\ calls' = CallIf("onKeyUp" \in supplied, "onKeyUp", <<"e">>)
                \o CallIf(key = "Enter" /\ "onEnter" \in supplied,
                          "onEnter", <<value, "e">>)
                \o CallIf(key = "Escape" /\ "onEscape" \in supplied,
                          "onEscape", <<value, "e">>)
    /\ lastEvent' = Ev("keyup", key, supplied, 0, FALSE, FALSE)
    /\ UNCHANGED <<isFirefoxBrowser, inputMounted, value, scrollWidth,
                   clientWidth, timers>>

\* onBlur of the rendered input
Blur(supplied) ==
    /\ inputMounted
    /\ calls' = CallIf("onUpdate" \in supplied, "onUpdate", <<value, "e">>)
                \o CallIf("onBlur" \in supplied, "onBlur", <<"e">>)
    /\ lastEvent' = Ev("blur", "-", supplied, 0, FALSE, FALSE)
    /\ UNCHANGED <<isFirefoxBrowser, inputMounted, value, scrollWidth,
                   clientWidth, timers>>

\* onChange of the rendered input: the user's edit left newValue in the
\* element, e.currentTarget.value reads it
InputChange(newValue, supplied) ==
    /\ inputMounted
    /\ value' = newValue
    /\ calls' = CallIf("onChangeValue" \in supplied, "onChangeValue",
                       <<value', "e">>)
                \o CallIf("onChange" \in supplied, "onChange", <<"e">>)
    /\ lastEvent' = Ev("change", "-", supplied, 0, FALSE, FALSE)
    /\ UNCHANGED <<isFirefoxBrowser, inputMounted, scrollWidth, clientWidth,
                   timers>>

\* handleClick: on Firefox schedule the cursor timer with x = clientX - left,
\* then props.onClick?.(e)
\* (variant: the timer is scheduled whatever the browser)
ClickAnyBrowser(clientX, left, supplied) ==
    /\ inputMounted
    /\ Len(timers) < MaxTimers
    /\ timers' = Append(timers, clientX - left)
    /\ calls' = CallIf("onClick" \in supplied, "onClick", <<"e">>)
    /\ lastEvent' = Ev("click", "-", supplied, clientX - left, FALSE, FALSE)
    /\ UNCHANGED <<isFirefoxBrowser, inputMounted, value, scrollWidth,
                   clientWidth>>
Click(clientX, left, supplied) ==
    /\ inputMounted
    /\ LET x == clientX - left
       IN /\ IF isFirefoxBrowser
             THEN /\ Len(timers) < MaxTimers
                  /\ timers' = Append(timers, x)
             ELSE timers' = timers
          /\ calls' = CallIf("onClick" \in supplied, "onClick", <<"e">>)
          /\ lastEvent' = Ev("click", "-", supplied, x, FALSE, FALSE)
    /\ UNCHANGED <<isFirefoxBrowser, inputMounted, value, scrollWidth,
                   clientWidth>>

\* the callback of the oldest pending setTimeout(..., 0); setSelectionRange
\* throws or not as the host decides
\* (variant: no try/catch around setSelectionRange)
CursorTimerNoCatch(throws) ==
    /\ timers # <<>>
    /\ LET x == Head(timers)
           cursorPos == CursorPos(x, scrollWidth, clientWidth, Len(value))
       IN /\ calls' = <<Call("setSelectionRange", <<cursorPos, cursorPos>>)>>
          /\ lastEvent' = Ev("timer", "-", {}, x, throws, throws)
    /\ timers' = Tail(timers)
    /\ UNCHANGED <<isFirefoxBrowser, inputMounted, value, scrollWidth,
                   clientWidth>>
CursorTimer(throws) ==
    /\ timers # <<>>
    /\ LET x == Head(timers)
           textWidth == scrollWidth
           containerWidth == clientWidth
           cursorPos == CursorPos(x, textWidth, containerWidth, Len(value))
       IN /\ calls' = <<Call("setSelectionRange", <<cursorPos, cursorPos>>)>>
                      \o CallIf(throws, "focus", <<>>)
          /\ lastEvent' = Ev("timer", "-", {}, x, throws, FALSE)
    /\ timers' = Tail(timers)
    /\ UNCHANGED <<isFirefoxBrowser, inputMounted, value, scrollWidth,
                   clientWidth>>

\* the layout changes under the input (window resize, restyling)
Resize(sw, cw) ==
    /\ inputMounted
    /\ cw <= sw
    /\ <<sw, cw>> # <<scrollWidth, clientWidth>>
    /\ scrollWidth' = sw
    /\ clientWidth' = cw
    /\ calls' = <<>>
    /\ lastEvent' = Ev("resize", "-", {}, 0, FALSE, FALSE)
    /\ UNCHANGED <<isFirefoxBrowser, inputMounted, value, timers>>

\* the Input leaves the screen; nothing clears its pending timers
InputUnmount ==
    /\ inputMounted
    /\ inputMounted' = FALSE
    /\ calls' = <<>>
    /\ lastEvent' = Ev("unmount", "-", {}, 0, FALSE, FALSE)
    /\ UNCHANGED <<isFirefoxBrowser, value, scrollWidth, clientWidth, timers>>

\* the panel is not part of the Input's state machine
PanelParked ==
    /\ mounted = FALSE
    /\ expanded = FALSE
    /\ prefs = [k \in PrefKeys |-> UNDEFINED]
    /\ localStorage = NULL
    /\ view = NoView
    /\ dirty = FALSE
    /\ written = {}
    /\ lastOp = PlainOp("none")

\* clicks, cursor timers and what changes under them
InputNext ==
    \/ \E newValue \in Values, supplied \in SUBSET ChangeHandlers :
           InputChange(newValue, supplied) /\ UNCHANGED panelVars
    \/ \E clientX \in ClientXs, left \in Lefts,
          supplied \in SUBSET ClickHandlers :
           Click(clientX, left, supplied) /\ UNCHANGED panelVars
    \/ \E throws \in BOOLEAN :
           CursorTimer(throws) /\ UNCHANGED panelVars
    \/ \E sw \in 0..MaxWidth, cw \in 0..MaxWidth :
           Resize(sw, cw) /\ UNCHANGED panelVars
    \/ InputUnmount /\ UNCHANGED panelVars

\* the events the Input forwards to the caller's handlers
InputEventNext ==
    \/ \E key \in Keys, supplied \in SUBSET KeyUpHandlers :
           KeyUp(key, supplied) /\ UNCHANGED panelVars
    \/ \E supplied \in SUBSET BlurHandlers :
           Blur(supplied) /\ UNCHANGED panelVars
    \/ \E newValue \in Values, supplied \in SUBSET ChangeHandlers :
           InputChange(newValue, supplied) /\ UNCHANGED panelVars
    \/ InputUnmount /\ UNCHANGED panelVars

InputSpecInit == InputInit /\ PanelParked

InputSpec == InputSpecInit /\ [][InputNext]_vars

InputEventSpec == InputSpecInit /\ [][InputEventNext]_vars

(***************************************************************************)
(* Settings panel: properties                                              *)
(***************************************************************************)
FlagKey(f) == "flags." \o f
Negated(b) == IF b THEN "false" ELSE "true"
FlagKeys == {"flags.goalTemplatesEnabled", "flags.goalTemplatesUIEnabled",
             "flags.actionTemplating", "flags.pluggyAiBankSync"}
Stored(k) == IF k \in DOMAIN prefs THEN prefs[k] ELSE UNDEFINED

\* C1: a change event on the checkbox of flag f, rendered with enabled = e,
\* stores String(!e) under flags.f: "false" when the flag was read as true,
\* "true" when it was read as false.
C1_ToggleFlipsStoredString ==
    lastOp.op = "change" =>
        Stored(FlagKey(lastOp.flag)) = Negated(lastOp.enabled)

C1_Witness ==
    /\ lastOp.op = "change"
    /\ lastOp.enabled
    /\ Stored(FlagKey(lastOp.flag)) = "false"

\* C2 as stated: after a change event on f, also one delivered before the
\* re-render that follows the previous write, flags.f holds the negation of
\* the value the flag had immediately before that event.
C2_NegatesValueBeforeEvent ==
    lastOp.op = "change" =>
        Stored(FlagKey(lastOp.flag)) = Negated(lastOp.before)

\* C2 as amended: flags.f holds the negation of the value the checkbox was
\* rendered with when the last change event was delivered; that value is the
\* flag's value immediately before the event whenever the panel has
\* re-rendered since the previous write.
C2_NegatesRenderedValue ==
    lastOp.op = "change" =>
        /\ Stored(FlagKey(lastOp.flag)) = Negated(lastOp.enabled)
        /\ lastOp.fresh => lastOp.enabled = lastOp.before
        /\ lastOp.fresh => Stored(FlagKey(lastOp.flag)) = Negated(lastOp.before)

C2_Witness ==
    /\ lastOp.op = "change"
    /\ ~lastOp.fresh
    /\ lastOp.enabled # lastOp.before
    /\ Stored(FlagKey(lastOp.flag)) = Negated(lastOp.enabled)

\* C3: every value the panel writes is "true" or "false", under a key
\* flags.<flagName> of one of the four rendered flags, and a change event on
\* the toggle of f leaves every other preference as it was.
C3_WrittenOk ==
    \A w \in written : w[1] \in FlagKeys /\ w[2] \in {"true", "false"}

C3_OthersUnchanged ==
    lastOp'.op = "change" =>
        /\ DOMAIN prefs' = DOMAIN prefs
        /\ \A k \in DOMAIN prefs \ {FlagKey(lastOp'.flag)} : prefs'[k] = prefs[k]

C3_OnlyFlagStringsWritten == []C3_WrittenOk /\ [][C3_OthersUnchanged]_vars

C3_Witness ==
    /\ lastOp.op = "change"
    /\ lastOp.flag = ActionTemplating
    /\ <<"flags.actionTemplating", "true">> \in written
    /\ <<"flags.pluggyAiBankSync", "false">> \in written
    /\ Stored("flags.pluggyAiBankSync") = "false"
    /\ Stored("flags.goalTemplatesEnabled") = "true"

\* C6: expanded starts false (at every mount), changes only from false to
\* true and only by the click on the link, and while it is false no toggle is
\* on screen and no preference is written.
C6_StartsCollapsed == (~mounted /\ mounted') => ~expanded'
C6_OnlyExpands ==
    (mounted /\ mounted' /\ expanded' # expanded) =>
        (~expanded /\ expanded' /\ lastOp'.op = "click")
C6_NoWriteBeforeClick ==
    (lastOp'.op = "change" \/ written' # written \/ prefs' # prefs) => expanded
C6_CollapsedShowsNoToggle == ~expanded => (view.toggles = {} /\ ~dirty)

C6_ExpandedIsOneWay ==
    /\ ~expanded
    /\ []C6_CollapsedShowsNoToggle
    /\ [][C6_StartsCollapsed /\ C6_OnlyExpands /\ C6_NoWriteBeforeClick]_vars

C6_Witness ==
    /\ mounted
    /\ expanded
    /\ lastOp.op = "change"
    /\ written # {}

\* C7: as of the last render, the toggle of goalTemplatesUIEnabled is on
\* screen exactly when the panel is expanded and (goalTemplatesUIEnabled, or
\* goalTemplatesEnabled and the override item is the string 'true').
C7_SubfeatureToggleShown ==
    (mounted /\ ~dirty) =>
        (GoalTemplatesUI \in view.toggles <=>
            /\ expanded
            /\ \/ useFeatureFlag(prefs, GoalTemplatesUI)
               \/ /\ useFeatureFlag(prefs, GoalTemplates)
                  /\ localStorage = "true")

C7_Witness ==
    /\ mounted /\ ~dirty /\ expanded
    /\ localStorage = "true"
    /\ ~useFeatureFlag(prefs, GoalTemplates)
    /\ ~useFeatureFlag(prefs, GoalTemplatesUI)
    /\ GoalTemplatesUI \notin view.toggles
    /\ lastOp.op = "render"

\* C8: the panel writes "true" to flags.goalTemplatesUIEnabled only from a
\* render that read goalTemplatesEnabled as true and the override item as
\* 'true'; so without the override a goalTemplatesUIEnabled that is false
\* stays false whatever the panel does.
C8_TrueWrittenUnderOverride ==
    (lastOp.op = "change" /\ lastOp.flag = GoalTemplatesUI
        /\ Stored("flags.goalTemplatesUIEnabled") = "true") =>
        /\ GoalTemplates \in DOMAIN view.checked
        /\ view.checked[GoalTemplates]
        /\ localStorage = "true"

C8_StaysOffWithoutOverride ==
    (localStorage # "true" /\ ~useFeatureFlag(prefs, GoalTemplatesUI)) =>
        ~useFeatureFlag(prefs', GoalTemplatesUI)

C8_SubfeatureNeedsOverride ==
    []C8_TrueWrittenUnderOverride /\ [][C8_StaysOffWithoutOverride]_vars

C8_Witness ==
    /\ lastOp.op = "change"
    /\ lastOp.flag = GoalTemplatesUI
    /\ ~lastOp.before
    /\ Stored("flags.goalTemplatesUIEnabled") = "true"

(***************************************************************************)
(* Input: properties                                                       *)
(***************************************************************************)
Fns(cs) == [i \in 1..Len(cs) |-> cs[i].fn]
CallsTo(fn) == {i \in 1..Len(calls) : calls[i].fn = fn}

\* C4: a click never writes the cursor position itself: it calls the caller's
\* onClick once (when supplied) and, on Firefox, queues exactly one timer
\* holding its x; setSelectionRange is called only by a timer callback; a
\* timer leaves the queue only by running, oldest first; on another browser
\* no timer is ever queued and setSelectionRange is never called.
C4_ClickCalls ==
    lastEvent.op = "click" =>
        Fns(calls) = IF "onClick" \in lastEvent.supplied
                     THEN <<"onClick">> ELSE <<>>
C4_CursorWrittenByTimerOnly ==
    CallsTo("setSelectionRange") # {} =>
        (lastEvent.op = "timer" /\ isFirefoxBrowser)
C4_NoTimerOffFirefox == ~isFirefoxBrowser => timers = <<>>
C4_OneTimerPerClick ==
    lastEvent'.op = "click" =>
        timers' = IF isFirefoxBrowser
                  THEN Append(timers, lastEvent'.x) ELSE timers
C4_NeverCancelled ==
    timers' # timers =>
        \/ lastEvent'.op = "click" /\ Len(timers') = Len(timers) + 1
        \/ /\ lastEvent'.op = "timer"
           /\ timers # <<>>
           /\ timers' = Tail(timers)
           /\ lastEvent'.x = Head(timers)

C4_CursorWriteIsDeferred ==
    /\ [](C4_ClickCalls /\ C4_CursorWrittenByTimerOnly /\ C4_NoTimerOffFirefox)
    /\ [][C4_OneTimerPerClick /\ C4_NeverCancelled]_vars

C4_Witness ==
    /\ isFirefoxBrowser
    /\ lastEvent.op = "click"
    /\ Len(timers) = 2
    /\ timers[2] = lastEvent.x
    /\ Fns(calls) = <<"onClick">>

\* C5: in the timer callback, a throwing setSelectionRange is swallowed and
\* answered by exactly one focus(); without a throw focus() is not called;
\* no error leaves the callback either way.
C5_FocusIsTheFallback ==
    lastEvent.op = "timer" =>
        /\ ~lastEvent.uncaught
        /\ Fns(calls) = IF lastEvent.threw
                        THEN <<"setSelectionRange", "focus">>
                        ELSE <<"setSelectionRange">>

C5_Witness ==
    /\ lastEvent.op = "timer"
    /\ lastEvent.threw
    /\ Cardinality(CallsTo("focus")) = 1

\* C9: with clientWidth > 0 the position passed to setSelectionRange is the
\* integer nearest to clamp(x, 0, clientWidth) / clientWidth * length (halves
\* up), computed from the widths and value the element has when the timer
\* runs, and lies in 0..length; it is 0 when scrollWidth is 0 or the value is
\* empty; both arguments are that position.
Clamp(x, lo, hi) == IF x < lo THEN lo ELSE IF x > hi THEN hi ELSE x

C10_Order ==
    <<"onKeyUp", "onEnter", "onEscape", "onUpdate", "onBlur",
      "onChangeValue", "onChange">>
C10_Due(h) ==
    /\ h \in lastEvent.supplied
    /\ h = "onEnter" => lastEvent.key = "Enter"
    /\ h = "onEscape" => lastEvent.key = "Escape"
    /\ h \in (CASE lastEvent.op = "keyup" -> KeyUpHandlers
                [] lastEvent.op = "blur" -> BlurHandlers
                [] lastEvent.op = "change" -> ChangeHandlers
                [] OTHER -> {})

====
